---- MODULE Spec2Model ----
(***************************************************************************)
(* Role-based task management: the Task model (schema), the TaskService    *)
(* (task.service.js) and the task controllers (task.controller.js).        *)
(*                                                                         *)
(* The Task collection is a sequence of documents in insertion order; a    *)
(* task's _id is its index.  One action is one HTTP request handled to     *)
(* completion: the controller, the service call it makes and every store   *)
(* call of that service method.                                            *)
(***************************************************************************)
EXTENDS Integers, Sequences, FiniteSets, TLC

VARIABLES
    tasks,        \* the Task collection: Seq of documents, _id = index
    now,          \* wall clock (ms) that stamps createdAt / updatedAt
    last,         \* the last request: inputs, service result, HTTP response
    scan,         \* history: pages 1..k of one listing fetched back to back
    softDeleted,  \* history: ids on which deleteTask has succeeded
    creator,      \* history: per _id, the caller of the createTask that made it
    inflight      \* requests between two of their store calls, per slot

vars == <<tasks, now, last, scan, softDeleted, creator, inflight>>

(***************************************************************************)
(* Bounds                                                                  *)
(***************************************************************************)
MaxTasks == 2     \* documents ever inserted
MaxClock == 1     \* clock ticks
MaxInflight == 2  \* requests in flight at once

(***************************************************************************)
(* Principals.  req.user = (id, role) comes from the identity provider.    *)
(***************************************************************************)
Users == {"u1", "u2", "adm"}
Role(u) == IF u = "adm" THEN "admin" ELSE "user"
Ghost == "ghost"      \* a well-formed ObjectId that names no User document

BadId == 0            \* req.params.id that is not a well-formed ObjectId
TaskIds == 0..MaxTasks

(***************************************************************************)
(* Task schema                                                             *)
(***************************************************************************)
StatusEnum == {"todo", "in-progress", "done"}
PriorityEnum == {"low", "medium", "high"}
SchemaPaths ==
    {"title", "description", "status", "priority", "assignedTo", "createdBy", "isDeleted"}
SchemaDefaults == [status |-> "todo", priority |-> "medium", isDeleted |-> FALSE]

\* Strings that the schema transforms are sequences of characters.
RECURSIVE TrimLeft(_)
TrimLeft(s) == IF s # <<>> /\ Head(s) = " " THEN TrimLeft(Tail(s)) ELSE s

RECURSIVE TrimRight(_)
TrimRight(s) ==
    IF s # <<>> /\ s[Len(s)] = " " THEN TrimRight(SubSeq(s, 1, Len(s) - 1)) ELSE s

\* title: { trim: true }
Trim(s) == TrimRight(TrimLeft(s))

\* JavaScript object spread / Object.assign: keys of b win over keys of a.
Merge(a, b) ==
    [k \in (DOMAIN a) \cup (DOMAIN b) |-> IF k \in DOMAIN b THEN b[k] ELSE a[k]]

\* The schema setter of a path.
CastPath(k, v) == IF k = "title" THEN Trim(v) ELSE v

\* Strict schema: paths outside the schema are dropped, the others are cast.
CastDoc(raw) == [k \in (DOMAIN raw) \cap SchemaPaths |-> CastPath(k, raw[k])]

\* Schema validators: required, enum.
Valid(doc) ==
    /\ {"title", "description", "assignedTo", "createdBy"} \subseteq DOMAIN doc
    /\ doc.title # <<>>
    /\ doc.description # <<>>
    /\ doc.status \in StatusEnum
    /\ doc.priority \in PriorityEnum

\* populate(path, 'name email'): the User document, or null when none has that id.
Populate(ref) == IF ref \in Users THEN ref ELSE "null"

(***************************************************************************)
(* Service results                                                         *)
(***************************************************************************)
AccessMsg == "Not authorized to access this task"
UpdateMsg == "Not authorized to update this task"
DeleteMsg == "Not authorized to delete this task"

NoPagination == [page |-> 0, limit |-> 0, total |-> 0, pages |-> 0]

\* kind: "ok" a value is returned, "null" the not-found sentinel, "throw".
Result(kind, error, store) ==
    [kind |-> kind, error |-> error, store |-> store,
     tasks |-> <<>>, pagination |-> NoPagination, stats |-> <<{}, {}>>]

Returned(store) == Result("ok", "", store)
NotFound(store) == Result("null", "", store)
Throw(error, store) == Result("throw", error, store)

(***************************************************************************)
(* TaskService                                                             *)
(***************************************************************************)
\* The request body spread after the service's own fields.
NewTask_BodyWins(taskData, userId) ==
    LET raw == Merge([createdBy |-> userId,
                      assignedTo |-> IF "assignedTo" \in DOMAIN taskData
                                     THEN taskData.assignedTo ELSE userId],
                     taskData)
    IN  Merge(SchemaDefaults, CastDoc(raw))

\* Task.create(...) document before validation
NewTask(taskData, userId) ==
    LET raw == Merge(taskData,
                     [createdBy |-> userId,
                      assignedTo |-> IF "assignedTo" \in DOMAIN taskData
                                     THEN taskData.assignedTo ELSE userId])
    IN  Merge(SchemaDefaults, CastDoc(raw))

\* timestamps: true, on insert
Stamp(doc, clock) == Merge(doc, [createdAt |-> clock, updatedAt |-> clock])

TaskService_createTask(store, clock, taskData, userId) ==
    LET doc == NewTask(taskData, userId) IN
    IF ~Valid(doc) THEN Throw("ValidationError", store)
    ELSE Returned(Append(store, Stamp(doc, clock)))

\* findOne by _id alone.
FindOne_Deleted(store, taskId) == {i \in 1..Len(store) : i = taskId}

\* Task.findOne({ _id: taskId, isDeleted: false })
FindOne(store, taskId) ==
    {i \in 1..Len(store) : i = taskId /\ ~store[i].isDeleted}

\* A replacing update: paths the body leaves out fall back to their defaults.
Assign_Replace(task, updateData) ==
    Merge(Merge(task, SchemaDefaults), CastDoc(updateData))

\* Object.assign(task, updateData) on a document: every key goes through the
\* schema setter, keys outside the schema are ignored.
Assign(task, updateData) == Merge(task, CastDoc(updateData))

ModifiedPaths(task, doc) == {k \in SchemaPaths : doc[k] # task[k]}

\* task.save(): updatedAt moves only when some path was modified.
Save(task, doc, clock) ==
    IF ModifiedPaths(task, doc) = {} THEN doc ELSE Merge(doc, [updatedAt |-> clock])

\* A save that replaces the stored document by the in-memory one.
Persist_WholeDoc(stored, task, doc, clock) == Save(task, doc, clock)

\* A save that writes nothing once the stored document is soft-deleted.
Persist_LiveOnly(stored, task, doc, clock) ==
    IF stored.isDeleted \/ ModifiedPaths(task, doc) = {} THEN stored
    ELSE Merge(stored, [k \in ModifiedPaths(task, doc) \cup {"updatedAt"} |->
                            IF k = "updatedAt" THEN clock ELSE doc[k]])

\* task.save() against the store as it is when the write arrives: the paths
\* modified since the document was loaded are set on the stored document,
\* selected by _id alone; a document without modified paths is not written.
Persist(stored, task, doc, clock) ==
    IF ModifiedPaths(task, doc) = {} THEN stored
    ELSE Merge(stored, [k \in ModifiedPaths(task, doc) \cup {"updatedAt"} |->
                            IF k = "updatedAt" THEN clock ELSE doc[k]])

MayAccess(task, userId, userRole) ==
    userRole = "admin" \/ task.assignedTo = userId

MayUpdate(task, userId, userRole) ==
    userRole = "admin" \/ task.assignedTo = userId

\* Delete authorised like update, by assignment.
MayDelete_ByAssignee(task, userId, userRole) ==
    userRole = "admin" \/ task.assignedTo = userId

MayDelete(task, userId, userRole) ==
    userRole = "admin" \/ task.createdBy = userId

TaskService_getTaskById(store, taskId, userId, userRole) ==
    IF taskId = BadId THEN Throw("CastError", store)
    ELSE IF FindOne(store, taskId) = {} THEN NotFound(store)
    ELSE LET task == store[taskId] IN
         \* task.assignedTo._id on a populated path that resolved to null
         IF userRole # "admin" /\ Populate(task.assignedTo) = "null"
         THEN Throw("TypeError", store)
         ELSE IF ~MayAccess(task, userId, userRole) THEN Throw(AccessMsg, store)
         ELSE Returned(store)

TaskService_updateTask(store, clock, taskId, updateData, userId, userRole) ==
    IF taskId = BadId THEN Throw("CastError", store)
    ELSE IF FindOne(store, taskId) = {} THEN NotFound(store)
    ELSE LET task == store[taskId] IN
         IF ~MayUpdate(task, userId, userRole) THEN Throw(UpdateMsg, store)
         ELSE LET doc == Assign(task, updateData) IN
              IF ~Valid(doc) THEN Throw("ValidationError", store)
              ELSE Returned([store EXCEPT ![taskId] = Save(task, doc, clock)])

\* A delete that writes the flag before it checks the caller.
TaskService_deleteTask_SaveFirst(store, clock, taskId, userId, userRole) ==
    IF taskId = BadId THEN Throw("CastError", store)
    ELSE IF FindOne(store, taskId) = {} THEN NotFound(store)
    ELSE LET task == store[taskId]
             saved == [store EXCEPT
                  ![taskId] = Save(task, [task EXCEPT !.isDeleted = TRUE], clock)] IN
         IF ~MayDelete(task, userId, userRole) THEN Throw(DeleteMsg, saved)
         ELSE Returned(saved)

TaskService_deleteTask(store, clock, taskId, userId, userRole) ==
    IF taskId = BadId THEN Throw("CastError", store)
    ELSE IF FindOne(store, taskId) = {} THEN NotFound(store)
    ELSE LET task == store[taskId] IN
         IF ~MayDelete(task, userId, userRole) THEN Throw(DeleteMsg, store)
         ELSE Returned([store EXCEPT
                  ![taskId] = Save(task, [task EXCEPT !.isDeleted = TRUE], clock)])


\* The optional fields of req.query, with the destructuring defaults.
QueryPage(query) == IF "page" \in DOMAIN query THEN query.page ELSE 1
QueryLimit(query) == IF "limit" \in DOMAIN query THEN query.limit ELSE 10
QuerySortBy(query) == IF "sortBy" \in DOMAIN query THEN query.sortBy ELSE "-createdAt"

\* Filter without the role-based restriction.
Filter_AllAssignees(store, userId, userRole, query) ==
    {i \in 1..Len(store) :
        /\ ~store[i].isDeleted
        /\ ("status" \in DOMAIN query => store[i].status = query.status)
        /\ ("priority" \in DOMAIN query => store[i].priority = query.priority)}

\* The filter getTasks builds: the set of matching _ids.
Filter(store, userId, userRole, query) ==
    {i \in 1..Len(store) :
        /\ ~store[i].isDeleted
        /\ (userRole # "admin" => store[i].assignedTo = userId)
        /\ ("status" \in DOMAIN query => store[i].status = query.status)
        /\ ("priority" \in DOMAIN query => store[i].priority = query.priority)}

\* String order of the status values, for sort('status').
StatusRank(s) == IF s = "done" THEN 1 ELSE IF s = "in-progress" THEN 2 ELSE 3

\* a sorts strictly before b under sort(sortBy)
Before(a, b, sortBy) ==
    IF sortBy = "-createdAt" THEN a.createdAt > b.createdAt
    ELSE IF sortBy = "createdAt" THEN a.createdAt < b.createdAt
    ELSE StatusRank(a.status) < StatusRank(b.status)

Perms(S) ==
    {s \in [1..Cardinality(S) -> S] : \A i, j \in DOMAIN s : i # j => s[i] # s[j]}

\* The orders in which the store may return the matching documents for
\* sort(sortBy): documents that tie on the key come in any order, and the
\* order is chosen anew by every query.
SortedOrders(store, S, sortBy) ==
    {s \in Perms(S) :
        \A i, j \in DOMAIN s : i < j => ~Before(store[s[j]], store[s[i]], sortBy)}

Min(a, b) == IF a < b THEN a ELSE b

\* Math.floor in place of Math.ceil.
Pages_Floor(total, limit) == total \div limit

\* Math.ceil(total / limit) for limit >= 1
Pages(total, limit) == (total + limit - 1) \div limit

\* .skip(skip).limit(limit) applied to the sorted cursor
Slice(ord, skip, limit) == SubSeq(ord, skip + 1, Min(skip + limit, Len(ord)))

\* ord: the order the store produced for this query's sort
TaskService_getTasks(store, userId, userRole, query, ord) ==
    LET page == QueryPage(query)
        limit == QueryLimit(query)
        skip == (page - 1) * limit
        total == Cardinality(Filter(store, userId, userRole, query))
    IN  IF skip < 0 THEN Throw("MongoServerError", store)
        ELSE [Returned(store) EXCEPT
                 !.tasks = Slice(ord, skip, limit),
                 !.pagination = [page |-> page, limit |-> limit, total |-> total,
                                 pages |-> Pages(total, limit)]]

\* The aggregation without its $match stage.
GroupCount_NoMatch(store, path) ==
    LET all == 1..Len(store) IN
    {[_id |-> v, count |-> Cardinality({i \in all : store[i][path] = v})] :
        v \in {store[i][path] : i \in all}}

\* aggregate([{ $match: { isDeleted: false } }, { $group: { _id: '$' + path, count } }])
GroupCount(store, path) ==
    LET live == {i \in 1..Len(store) : ~store[i].isDeleted} IN
    {[_id |-> v, count |-> Cardinality({i \in live : store[i][path] = v})] :
        v \in {store[i][path] : i \in live}}

TaskService_getTaskStats(store) ==
    [Returned(store) EXCEPT
        !.stats = <<GroupCount(store, "status"), GroupCount(store, "priority")>>]

(***************************************************************************)
(* Controllers: the HTTP response for a service result.  status "next" is  *)
(* next(error), which hands `error` to the generic error handler.          *)
(***************************************************************************)
Response(status, error) == [status |-> status, error |-> error]

getTask_Response(res) ==
    IF res.kind = "null" THEN Response("404", "")
    ELSE IF res.kind = "ok" THEN Response("200", "")
    ELSE IF res.error = AccessMsg THEN Response("403", res.error)
    ELSE Response("next", res.error)

\* The update handler matching the message of the read handler.
updateTask_Response_AccessMsg(res) ==
    IF res.kind = "null" THEN Response("404", "")
    ELSE IF res.kind = "ok" THEN Response("200", "")
    ELSE IF res.error = AccessMsg THEN Response("403", res.error)
    ELSE Response("next", res.error)

updateTask_Response(res) ==
    IF res.kind = "null" THEN Response("404", "")
    ELSE IF res.kind = "ok" THEN Response("200", "")
    ELSE IF res.error = UpdateMsg THEN Response("403", res.error)
    ELSE Response("next", res.error)

deleteTask_Response(res) ==
    IF res.kind = "null" THEN Response("404", "")
    ELSE IF res.kind = "ok" THEN Response("200", "")
    ELSE IF res.error = DeleteMsg THEN Response("403", res.error)
    ELSE Response("next", res.error)

createTask_Response(res) ==
    IF res.kind = "ok" THEN Response("201", "") ELSE Response("next", res.error)

getTasks_Response(res) ==
    IF res.kind = "ok" THEN Response("200", "") ELSE Response("next", res.error)

getTaskStats_Response(res) ==
    IF res.kind = "ok" THEN Response("200", "") ELSE Response("next", res.error)

(***************************************************************************)
(* State                                                                   *)
(***************************************************************************)
NoScan == [active |-> FALSE, userId |-> "", query |-> <<>>, next |-> 0,
           pages |-> 0, acc |-> <<>>]

\* The listing a query belongs to: the query without its page.
Listing(query) == [k \in (DOMAIN query) \ {"page"} |-> query[k]]

Request(op, userId, taskId, arg, res, http) ==
    [op |-> op, userId |-> userId, taskId |-> taskId, arg |-> arg,
     kind |-> res.kind, error |-> res.error, tasks |-> res.tasks,
     pagination |-> res.pagination, stats |-> res.stats, http |-> http]

Slots == 1..MaxInflight

\* A free slot.  pc names the store call an in-flight request makes next.
Idle == [pc |-> "idle", op |-> "", userId |-> "", taskId |-> 0, arg |-> <<>>,
         task |-> <<>>, doc |-> <<>>, wrote |-> FALSE, stale |-> FALSE]

Init ==
    /\ tasks = <<>>
    /\ now = 0
    /\ last = Request("none", "", 0, <<>>, Returned(<<>>), Response("", ""))
    /\ scan = NoScan
    /\ softDeleted = {}
    /\ creator = <<>>
    /\ inflight = [s \in Slots |-> Idle]

(***************************************************************************)
(* Requests.  Each takes the set its request body or query is drawn from.  *)
(***************************************************************************)
\* Time passes between requests.
Tick ==
    /\ now < MaxClock
    /\ now' = now + 1
    /\ UNCHANGED <<tasks, last, scan, softDeleted, creator, inflight>>

\* POST /api/tasks
exports_createTask(bodies) ==
    /\ Len(tasks) < MaxTasks
    /\ \E userId \in Users, taskData \in bodies :
         LET res == TaskService_createTask(tasks, now, taskData, userId) IN
         /\ tasks' = res.store
         /\ last' = Request("createTask", userId, 0, taskData, res, createTask_Response(res))
         /\ scan' = NoScan
         /\ creator' = IF res.kind = "ok" THEN Append(creator, userId) ELSE creator
         /\ UNCHANGED <<now, softDeleted, inflight>>

\* GET /api/tasks
exports_getTasks(queries) ==
    \E userId \in Users, query \in queries :
      \E ord \in SortedOrders(tasks, Filter(tasks, userId, Role(userId), query),
                              QuerySortBy(query)) :
         LET res == TaskService_getTasks(tasks, userId, Role(userId), query, ord)
             page == QueryPage(query)
         IN
         /\ last' = Request("getTasks", userId, 0, query, res, getTasks_Response(res))
         /\ scan' =
              IF res.kind # "ok" THEN NoScan
              ELSE IF page = 1
              THEN [active |-> TRUE, userId |-> userId, query |-> Listing(query),
                    next |-> 2, pages |-> res.pagination.pages, acc |-> res.tasks]
              ELSE IF /\ scan.active
                      /\ scan.userId = userId
                      /\ scan.query = Listing(query)
                      /\ scan.next = page
              THEN [scan EXCEPT !.next = page + 1, !.acc = scan.acc \o res.tasks]
              ELSE NoScan
         /\ UNCHANGED <<tasks, now, softDeleted, creator, inflight>>

\* GET /api/tasks/:id
exports_getTask ==
    \E userId \in Users, taskId \in TaskIds :
         LET res == TaskService_getTaskById(tasks, taskId, userId, Role(userId)) IN
         /\ last' = Request("getTask", userId, taskId, <<>>, res, getTask_Response(res))
         /\ scan' = NoScan
         /\ UNCHANGED <<tasks, now, softDeleted, creator, inflight>>

\* PUT /api/tasks/:id
exports_updateTask(bodies) ==
    \E userId \in Users, taskId \in TaskIds, updateData \in bodies :
         LET res == TaskService_updateTask(tasks, now, taskId, updateData,
                                           userId, Role(userId)) IN
         /\ tasks' = res.store
         /\ last' = Request("updateTask", userId, taskId, updateData, res,
                            updateTask_Response(res))
         /\ scan' = NoScan
         /\ UNCHANGED <<now, softDeleted, creator, inflight>>

\* DELETE /api/tasks/:id
exports_deleteTask ==
    \E userId \in Users, taskId \in TaskIds :
         LET res == TaskService_deleteTask(tasks, now, taskId, userId, Role(userId)) IN
         /\ tasks' = res.store
         /\ last' = Request("deleteTask", userId, taskId, <<>>, res,
                            deleteTask_Response(res))
         /\ scan' = NoScan
         /\ softDeleted' = IF res.kind = "ok" THEN softDeleted \cup {taskId}
                           ELSE softDeleted
         /\ UNCHANGED <<now, creator, inflight>>

\* GET /api/tasks/stats, behind authorize('admin')
exports_getTaskStats ==
    \E userId \in {u \in Users : Role(u) = "admin"} :
         LET res == TaskService_getTaskStats(tasks) IN
         /\ last' = Request("getTaskStats", userId, 0, <<>>, res,
                            getTaskStats_Response(res))
         /\ scan' = NoScan
         /\ UNCHANGED <<tasks, now, softDeleted, creator, inflight>>

(***************************************************************************)
(* The same handlers, one store call per step.  Between two awaits of one  *)
(* request the calls of other requests may run; a store call may fail.     *)
(***************************************************************************)
StoreError == "MongoNetworkError"

\* The handler answers: res.json(...) or next(error).
Finish(s, op, userId, taskId, arg, res, http) ==
    /\ last' = Request(op, userId, taskId, arg, res, http)
    /\ inflight' = [inflight EXCEPT ![s] = Idle]

\* await Task.create(...)
createTask_create(slots, users, bodies, faults) ==
    /\ Len(tasks) < MaxTasks
    /\ \E s \in slots, userId \in users, taskData \in bodies, fault \in faults :
         LET res == IF fault THEN Throw(StoreError, tasks)
                    ELSE TaskService_createTask(tasks, now, taskData, userId) IN
         /\ inflight[s].pc = "idle"
         /\ tasks' = res.store
         /\ IF res.kind = "ok"
            THEN /\ creator' = Append(creator, userId)
                 /\ inflight' = [inflight EXCEPT ![s] =
                        [Idle EXCEPT !.pc = "findById", !.op = "createTask",
                                     !.userId = userId, !.taskId = Len(tasks) + 1,
                                     !.arg = taskData, !.wrote = TRUE]]
                 /\ UNCHANGED last
            ELSE /\ Finish(s, "createTask", userId, 0, taskData, res,
                           createTask_Response(res))
                 /\ UNCHANGED creator
         /\ scan' = NoScan
         /\ UNCHANGED <<now, softDeleted>>

\* await Task.findById(task._id).populate(...) and the 201 answer
createTask_findById(slots, faults) ==
    \E s \in slots, fault \in faults :
         LET r == inflight[s]
             res == IF fault THEN Throw(StoreError, tasks) ELSE Returned(tasks) IN
         /\ r.op = "createTask" /\ r.pc = "findById"
         /\ Finish(s, "createTask", r.userId, 0, r.arg, res, createTask_Response(res))
         /\ scan' = NoScan
         /\ UNCHANGED <<tasks, now, softDeleted, creator>>

\* await Task.findOne({ _id, isDeleted: false }) and the checks that follow it
Load(store, taskId, allowed, msg, fault) ==
    IF fault THEN Throw(StoreError, store)
    ELSE IF taskId = BadId THEN Throw("CastError", store)
    ELSE IF FindOne(store, taskId) = {} THEN NotFound(store)
    ELSE IF ~allowed THEN Throw(msg, store)
    ELSE Returned(store)

updateTask_findOne(slots, users, patches, faults) ==
    \E s \in slots, userId \in users, taskId \in TaskIds,
       updateData \in patches, fault \in faults :
         LET res == Load(tasks, taskId,
                         taskId \in 1..Len(tasks)
                             /\ MayUpdate(tasks[taskId], userId, Role(userId)),
                         UpdateMsg, fault) IN
         /\ inflight[s].pc = "idle"
         /\ IF res.kind = "ok"
            THEN /\ inflight' = [inflight EXCEPT ![s] =
                        [Idle EXCEPT !.pc = "save", !.op = "updateTask",
                                     !.userId = userId, !.taskId = taskId,
                                     !.arg = updateData, !.task = tasks[taskId],
                                     !.doc = Assign(tasks[taskId], updateData)]]
                 /\ UNCHANGED last
            ELSE Finish(s, "updateTask", userId, taskId, updateData, res,
                        updateTask_Response(res))
         /\ scan' = NoScan
         /\ UNCHANGED <<tasks, now, softDeleted, creator>>

\* await task.save()
updateTask_save(slots, faults) ==
    \E s \in slots, fault \in faults :
         LET r == inflight[s]
             saved == [tasks EXCEPT ![r.taskId] =
                          Persist(tasks[r.taskId], r.task, r.doc, now)] IN
         /\ r.op = "updateTask" /\ r.pc = "save"
         /\ IF ~Valid(r.doc) \/ fault
            THEN LET res == Throw(IF ~Valid(r.doc) THEN "ValidationError"
                                  ELSE StoreError, tasks) IN
                 /\ Finish(s, "updateTask", r.userId, r.taskId, r.arg, res,
                           updateTask_Response(res))
                 /\ UNCHANGED tasks
            ELSE /\ tasks' = saved
                 /\ inflight' = [inflight EXCEPT ![s] =
                        [r EXCEPT !.pc = "findById", !.wrote = (saved # tasks),
                                  !.stale = tasks[r.taskId].isDeleted]]
                 /\ UNCHANGED last
         /\ scan' = NoScan
         /\ UNCHANGED <<now, softDeleted, creator>>

\* await Task.findById(task._id).populate(...) and the 200 answer
updateTask_findById(slots, faults) ==
    \E s \in slots, fault \in faults :
         LET r == inflight[s]
             res == IF fault THEN Throw(StoreError, tasks) ELSE Returned(tasks) IN
         /\ r.op = "updateTask" /\ r.pc = "findById"
         /\ Finish(s, "updateTask", r.userId, r.taskId, r.arg, res,
                   updateTask_Response(res))
         /\ scan' = NoScan
         /\ UNCHANGED <<tasks, now, softDeleted, creator>>

deleteTask_findOne(slots, users, faults) ==
    \E s \in slots, userId \in users, taskId \in TaskIds, fault \in faults :
         LET res == Load(tasks, taskId,
                         taskId \in 1..Len(tasks)
                             /\ MayDelete(tasks[taskId], userId, Role(userId)),
                         DeleteMsg, fault) IN
         /\ inflight[s].pc = "idle"
         /\ IF res.kind = "ok"
            THEN /\ inflight' = [inflight EXCEPT ![s] =
                        [Idle EXCEPT !.pc = "save", !.op = "deleteTask",
                                     !.userId = userId, !.taskId = taskId,
                                     !.task = tasks[taskId],
                                     !.doc = [tasks[taskId] EXCEPT !.isDeleted = TRUE]]]
                 /\ UNCHANGED last
            ELSE Finish(s, "deleteTask", userId, taskId, <<>>, res,
                        deleteTask_Response(res))
         /\ scan' = NoScan
         /\ UNCHANGED <<tasks, now, softDeleted, creator>>

\* task.isDeleted = true; await task.save(); and the 200 answer
deleteTask_save(slots, faults) ==
    \E s \in slots, fault \in faults :
         LET r == inflight[s]
             res == IF fault THEN Throw(StoreError, tasks)
                    ELSE Returned([tasks EXCEPT ![r.taskId] =
                             Persist(tasks[r.taskId], r.task, r.doc, now)]) IN
         /\ r.op = "deleteTask" /\ r.pc = "save"
         /\ tasks' = res.store
         /\ softDeleted' = IF res.kind = "ok" THEN softDeleted \cup {r.taskId}
                           ELSE softDeleted
         /\ Finish(s, "deleteTask", r.userId, r.taskId, <<>>, res,
                   deleteTask_Response(res))
         /\ scan' = NoScan
         /\ UNCHANGED <<now, creator>>

(***************************************************************************)
(* Request inputs                                                          *)
(***************************************************************************)
T == <<"T">>
U == <<"U">>
D == <<"D">>

(***************************************************************************)
(* Spec: access control and task lifecycle.                                *)
(***************************************************************************)
AccessBodies ==
    { [title |-> T, description |-> D],
      [title |-> T, description |-> D, assignedTo |-> "u2"],
      [title |-> T, description |-> D, assignedTo |-> Ghost],
      [description |-> D] }

AccessPatches ==
    { [status |-> "done"],
      [isDeleted |-> TRUE],
      [priority |-> "bogus"] }

AccessQueries == { [page |-> 1] }

Next ==
    \/ exports_createTask(AccessBodies)
    \/ exports_getTasks(AccessQueries)
    \/ exports_getTask
    \/ exports_updateTask(AccessPatches)
    \/ exports_deleteTask
    \/ exports_getTaskStats

Spec == Init /\ [][Next]_vars

(***************************************************************************)
(* SpecCreate: what POST /tasks persists, for every shape of request body. *)
(***************************************************************************)
TaskDatas ==
    { [title |-> T, description |-> D],
      [title |-> <<" ", "U", " ">>, description |-> D, status |-> "done",
       priority |-> "high", assignedTo |-> "u2"],
      [title |-> T, description |-> D, assignedTo |-> "u1", createdBy |-> "u2"],
      [title |-> T, description |-> D, createdBy |-> Ghost, isDeleted |-> TRUE],
      [title |-> T, description |-> D, status |-> "bogus"],
      [title |-> <<" ">>, description |-> D],
      [description |-> D] }

NextCreate ==
    \/ Tick
    \/ exports_createTask(TaskDatas)
    \/ exports_getTask

SpecCreate == Init /\ [][NextCreate]_vars

(***************************************************************************)
(* SpecUpdate: what PUT /tasks/:id changes.                                *)
(***************************************************************************)
UpdateBodies == { [title |-> T, description |-> D] }

Patches ==
    { [status |-> "done"],
      [title |-> <<" ", "U">>, priority |-> "high"],
      [note |-> "x"],
      [priority |-> "bogus"] }

NextUpdate ==
    \/ Tick
    \/ exports_createTask(UpdateBodies)
    \/ exports_updateTask(Patches)

SpecUpdate == Init /\ [][NextUpdate]_vars

(***************************************************************************)
(* SpecList: listing, pagination and statistics.                           *)
(***************************************************************************)
ListBodies ==
    { [title |-> T, description |-> D],
      [title |-> T, description |-> D, status |-> "done", priority |-> "high",
       assignedTo |-> "u2"] }

QueryFilters ==
    { [sortBy |-> "-createdAt"],
      [status |-> "todo", sortBy |-> "status"],
      [priority |-> "high"] }

QueryPaging ==
    { [limit |-> 1], [limit |-> 1, page |-> 2], [limit |-> 2, page |-> 1], [page |-> 1] }

Queries == {Merge(f, p) : f \in QueryFilters, p \in QueryPaging} \cup {[page |-> 0]}

NextList ==
    \/ Tick
    \/ exports_createTask(ListBodies)
    \/ exports_deleteTask
    \/ exports_getTasks(Queries)
    \/ exports_getTaskStats

SpecList == Init /\ [][NextList]_vars

\* ---- store failures: one request at a time, any store call may fail ------

FailUsers == {"u1", "u2"}

FailBodies == { [title |-> T, description |-> D] }

FailPatches == { [status |-> "done"], [priority |-> "bogus"] }

NextFail ==
    \/ createTask_create({1}, FailUsers, FailBodies, BOOLEAN)
    \/ createTask_findById({1}, BOOLEAN)
    \/ updateTask_findOne({1}, FailUsers, FailPatches, BOOLEAN)
    \/ updateTask_save({1}, BOOLEAN)
    \/ updateTask_findById({1}, BOOLEAN)
    \/ deleteTask_findOne({1}, FailUsers, BOOLEAN)
    \/ deleteTask_save({1}, BOOLEAN)

SpecFail == Init /\ [][NextFail]_vars

\* ---- interleavings: requests overlap, no store call fails ---------------

RaceUsers == {"u1"}

RaceBodies == { [title |-> T, description |-> D] }

RacePatches ==
    { [status |-> "done"],
      [isDeleted |-> FALSE, priority |-> "high"] }

NextRace ==
    \/ Tick
    \/ createTask_create(Slots, RaceUsers, RaceBodies, {FALSE})
    \/ createTask_findById(Slots, {FALSE})
    \/ updateTask_findOne(Slots, RaceUsers, RacePatches, {FALSE})
    \/ updateTask_save(Slots, {FALSE})
    \/ updateTask_findById(Slots, {FALSE})
    \/ deleteTask_findOne(Slots, RaceUsers, {FALSE})
    \/ deleteTask_save(Slots, {FALSE})

SpecRace == Init /\ [][NextRace]_vars

\* ---- ownership: patches that carry the owner and the deletion flag --------

OwnerBodies ==
    { [title |-> T, description |-> D],
      [title |-> T, description |-> D, assignedTo |-> "u2"] }

OwnerPatches ==
    { [status |-> "done"],
      [createdBy |-> "u2"],
      [isDeleted |-> TRUE] }

NextOwner ==
    \/ exports_createTask(OwnerBodies)
    \/ exports_updateTask(OwnerPatches)
    \/ exports_deleteTask

SpecOwner == Init /\ [][NextOwner]_vars

(***************************************************************************)
(* Properties                                                              *)
(***************************************************************************)
SeqRange(s) == {s[i] : i \in DOMAIN s}
Live(store) == {i \in 1..Len(store) : ~store[i].isDeleted}
IsAdmin(u) == Role(u) = "admin"

\* The tasks a query's status and priority filters let through.
Wanted(store, query) ==
    {i \in Live(store) :
        /\ ("status" \in DOMAIN query => store[i].status = query.status)
        /\ ("priority" \in DOMAIN query => store[i].priority = query.priority)}

\* C1: getTasks never returns a soft-deleted task; a non-admin caller gets only
\* tasks assigned to them; an admin loses no live task on account of its
\* assignee (a first page large enough holds every live task the status and
\* priority filters let through).
C1_Visibility ==
    (last.op = "getTasks" /\ last.kind = "ok") =>
        /\ \A t \in SeqRange(last.tasks) : ~tasks[t].isDeleted
        /\ ~IsAdmin(last.userId) =>
              \A t \in SeqRange(last.tasks) : tasks[t].assignedTo = last.userId
        /\ (/\ IsAdmin(last.userId)
            /\ last.pagination.page = 1
            /\ last.pagination.limit >= Cardinality(Wanted(tasks, last.arg)))
              => SeqRange(last.tasks) = Wanted(tasks, last.arg)

\* A non-admin lists: a live task of another user is left out, one of their own
\* is listed.
C1_Witness ==
    /\ last.op = "getTasks" /\ last.kind = "ok" /\ ~IsAdmin(last.userId)
    /\ last.tasks # <<>>
    /\ \E t \in Live(tasks) :
          tasks[t].assignedTo # last.userId /\ t \notin SeqRange(last.tasks)

\* C2: once deleteTask has succeeded on a task, the task stays soft-deleted,
\* every later getTaskById, updateTask or deleteTask on its id by any caller
\* ends with the not-found sentinel (HTTP 404, no error), and no later getTasks
\* returns it.
C2_DeletedIsNotFound ==
    [][\A t \in softDeleted :
          /\ tasks'[t].isDeleted
          /\ (last' # last /\ last'.taskId = t
              /\ last'.op \in {"getTask", "updateTask", "deleteTask"})
                => (last'.kind = "null" /\ last'.http.status = "404")
          /\ (last' # last /\ last'.op = "getTasks")
                => t \notin SeqRange(last'.tasks)]_vars

\* A second deleteTask, by a user who is neither admin nor creator, on a task
\* deleteTask removed earlier: not found.
C2_Witness ==
    /\ last.op = "deleteTask" /\ last.kind = "null"
    /\ last.taskId \in softDeleted
    /\ ~IsAdmin(last.userId)
    /\ tasks[last.taskId].createdBy # last.userId

PatchValid(patch) ==
    /\ ("status" \in DOMAIN patch => patch.status \in StatusEnum)
    /\ ("priority" \in DOMAIN patch => patch.priority \in PriorityEnum)

\* The task of the claim: live, assigned to non-admin a, created by someone else.
AssignedNotCreated(t, a) ==
    /\ t \in Live(tasks)
    /\ tasks[t].assignedTo = a
    /\ tasks[t].createdBy # a
    /\ ~IsAdmin(a)

\* C3: on a live task assigned to non-admin A and created by another user,
\* updateTask by A is authorised (it ends neither not-found nor with the update
\* authorization error, and with a patch the schema accepts it succeeds),
\* while deleteTask by A fails with the delete authorization error (HTTP 403)
\* and leaves the task live and unchanged.
C3_UpdateNotDelete ==
    [][\A t \in 1..Len(tasks) :
          (AssignedNotCreated(t, last'.userId) /\ last' # last /\ last'.taskId = t) =>
             /\ last'.op = "updateTask" =>
                   /\ last'.kind # "null"
                   /\ last'.error # UpdateMsg
                   /\ PatchValid(last'.arg) => last'.kind = "ok"
             /\ last'.op = "deleteTask" =>
                   /\ last'.kind = "throw" /\ last'.error = DeleteMsg
                   /\ last'.http.status = "403"
                   /\ tasks' = tasks]_vars

\* The assignee is refused the deletion of a task that an update has moved to
\* done.
C3_Witness ==
    /\ last.op = "deleteTask" /\ last.error = DeleteMsg
    /\ AssignedNotCreated(last.taskId, last.userId)
    /\ tasks[last.taskId].status = "done"

\* C4 (as claimed): getTaskById on a well-formed id has exactly three outcomes:
\* not-found when no live task has the id, the access authorization error when
\* the caller is no admin and is not the assignee, the task otherwise.
C4_ThreeOutcomes ==
    (last.op = "getTask" /\ last.taskId # BadId) =>
        IF last.taskId \notin Live(tasks) THEN last.kind = "null"
        ELSE IF ~IsAdmin(last.userId) /\ tasks[last.taskId].assignedTo # last.userId
        THEN last.kind = "throw" /\ last.error = AccessMsg
        ELSE last.kind = "ok"

AuthMsg(op) ==
    IF op = "getTask" THEN AccessMsg ELSE IF op = "updateTask" THEN UpdateMsg ELSE DeleteMsg

\* C9: GET, PUT and DELETE /tasks/:id answer 404 exactly when the service
\* returned the not-found sentinel and 403 exactly when it raised that
\* operation's authorization error; every other error goes unchanged to the
\* generic error handler.
C9_StatusMapping ==
    last.op \in {"getTask", "updateTask", "deleteTask"} =>
        /\ last.http.status = "404" <=> last.kind = "null"
        /\ last.http.status = "403" <=> (last.kind = "throw" /\ last.error = AuthMsg(last.op))
        /\ (last.kind = "throw" /\ last.error # AuthMsg(last.op)) =>
              last.http = [status |-> "next", error |-> last.error]
        /\ last.kind = "ok" => last.http.status = "200"

\* PUT has answered 403 to an unauthorised update, on a task that exists.
C9_Witness ==
    /\ last.op = "updateTask" /\ last.http.status = "403"
    /\ last.taskId \in Live(tasks)

\* A request was handled in this step (the clock alone did not move).
Handled == last' # last \/ tasks' # tasks

\* What the schema accepts of a POST body.
BodyValid(body) ==
    /\ "title" \in DOMAIN body /\ Trim(body.title) # <<>>
    /\ "description" \in DOMAIN body /\ body.description # <<>>
    /\ PatchValid(body)

Given(body, k, default) == IF k \in DOMAIN body THEN body[k] ELSE default

\* C5: createTask with a body the schema accepts persists exactly one new task
\* and changes no other; its createdBy is the caller whatever the body carries,
\* its assignedTo is the body's when given and the caller otherwise; status,
\* priority and isDeleted default to todo, medium and false.  A rejected body
\* persists nothing.
C5_CreatePersists ==
    [][(Handled /\ last'.op = "createTask") =>
          LET body == last'.arg
              n == Len(tasks)
          IN  IF BodyValid(body)
              THEN /\ last'.kind = "ok" /\ last'.http.status = "201"
                   /\ Len(tasks') = n + 1
                   /\ \A i \in 1..n : tasks'[i] = tasks[i]
                   /\ tasks'[n + 1].createdBy = last'.userId
                   /\ tasks'[n + 1].assignedTo = Given(body, "assignedTo", last'.userId)
                   /\ tasks'[n + 1].status = Given(body, "status", "todo")
                   /\ tasks'[n + 1].priority = Given(body, "priority", "medium")
                   /\ tasks'[n + 1].isDeleted = Given(body, "isDeleted", FALSE)
              ELSE last'.kind = "throw" /\ tasks' = tasks]_vars

\* A body naming another user as createdBy has been stored under the caller.
C5_Witness ==
    /\ last.op = "createTask" /\ last.kind = "ok"
    /\ "createdBy" \in DOMAIN last.arg
    /\ last.arg.createdBy # last.userId
    /\ tasks[Len(tasks)].createdBy = last.userId
    /\ tasks[Len(tasks)].assignedTo # last.userId

\* The tasks the caller's effective filter matches.
Matching(store, userId, query) ==
    {i \in Wanted(store, query) : ~IsAdmin(userId) => store[i].assignedTo = userId}

\* C6: with limit L >= 1, a getTasks that returns reports total = the number of
\* tasks matching the caller's effective filter, pages = ceil(total / L), and
\* at most L tasks.
C6_Pagination ==
    (last.op = "getTasks" /\ last.kind = "ok" /\ last.pagination.limit >= 1) =>
        LET total == last.pagination.total
            pages == last.pagination.pages
            L == last.pagination.limit
        IN  /\ total = Cardinality(Matching(tasks, last.userId, last.arg))
            /\ pages * L >= total
            /\ pages >= 0
            /\ pages > 0 => (pages - 1) * L < total
            /\ Len(last.tasks) <= L

\* One match, page size 2, beside a task the filter leaves out: 1 page.
C6_Witness ==
    /\ last.op = "getTasks" /\ last.kind = "ok"
    /\ last.pagination = [page |-> 1, limit |-> 2, total |-> 1, pages |-> 1]
    /\ Len(tasks) = 2
    /\ Len(last.tasks) = 1

NoDuplicates(s) == \A i, j \in DOMAIN s : i # j => s[i] # s[j]

\* C7 (as claimed): the pages 1..ceil(N/L) of one listing, fetched one after
\* the other from an unchanged store, concatenate to the full filtered result
\* in sort order: every matching task exactly once, also under ties.
C7_PagesPartition ==
    (scan.active /\ scan.pages >= 1 /\ scan.next > scan.pages) =>
        /\ NoDuplicates(scan.acc)
        /\ SeqRange(scan.acc) = Matching(tasks, scan.userId, scan.query)
        /\ \A i, j \in DOMAIN scan.acc :
              i < j => ~Before(tasks[scan.acc[j]], tasks[scan.acc[i]],
                               QuerySortBy(scan.query))

RECURSIVE SumCounts(_)
SumCounts(S) ==
    IF S = {} THEN 0
    ELSE LET e == CHOOSE x \in S : TRUE IN e.count + SumCounts(S \ {e})

\* groups: the statistics of one path over the live tasks
GroupsRight(groups, path) ==
    /\ \A e \in groups :
          /\ e.count = Cardinality({i \in Live(tasks) : tasks[i][path] = e._id})
          /\ e.count >= 1
    /\ \A e, f \in groups : e._id = f._id => e = f
    /\ \A i \in Live(tasks) : \E e \in groups : e._id = tasks[i][path]
    /\ SumCounts(groups) = Cardinality(Live(tasks))

\* C8: getTaskStats returns one {group, count} per status and per priority
\* present among the live tasks, count = number of live tasks with the value;
\* soft-deleted tasks count nowhere, and each list sums to the live tasks.
C8_Stats ==
    last.op = "getTaskStats" =>
        /\ last.kind = "ok"
        /\ GroupsRight(last.stats[1], "status")
        /\ GroupsRight(last.stats[2], "priority")

\* Statistics over a store holding a live and a soft-deleted task.
C8_Witness ==
    /\ last.op = "getTaskStats"
    /\ Len(tasks) = 2 /\ Cardinality(Live(tasks)) = 1
    /\ Cardinality(last.stats[1]) = 1

SuccessfulUpdate == Handled /\ last'.op = "updateTask" /\ last'.kind = "ok"

OthersUnchanged(t) ==
    /\ Len(tasks') = Len(tasks)
    /\ \A i \in 1..Len(tasks) : i # t => tasks'[i] = tasks[i]

\* C10 (as claimed): a successful updateTask sets exactly the fields the patch
\* names to the patch values; every other field of the task and every other
\* task is unchanged.
C10_ExactlyThePatch ==
    [][SuccessfulUpdate =>
          LET t == last'.taskId
              patch == last'.arg
          IN  /\ OthersUnchanged(t)
              /\ \A k \in DOMAIN patch :
                    k \in DOMAIN tasks'[t] /\ tasks'[t][k] = patch[k]
              /\ \A k \in (DOMAIN tasks[t]) \ (DOMAIN patch) :
                    tasks'[t][k] = tasks[t][k]]_vars

\* C10 (amended): a successful updateTask sets every schema field the patch
\* names to the patch value as the schema casts it (title trimmed), ignores
\* patch keys outside the schema, moves updatedAt to the current time when
\* some field changed, and leaves every other field and every other task
\* unchanged.
C10_PartialUpdate ==
    [][SuccessfulUpdate =>
          LET t == last'.taskId
              patch == last'.arg
              named == (DOMAIN patch) \cap SchemaPaths
              changed == \E k \in SchemaPaths : tasks'[t][k] # tasks[t][k]
          IN  /\ OthersUnchanged(t)
              /\ DOMAIN tasks'[t] = DOMAIN tasks[t]
              /\ \A k \in named :
                    tasks'[t][k] = IF k = "title" THEN Trim(patch[k]) ELSE patch[k]
              /\ \A k \in (DOMAIN tasks[t]) \ (named \cup {"updatedAt"}) :
                    tasks'[t][k] = tasks[t][k]
              /\ tasks'[t].updatedAt = IF changed THEN now ELSE tasks[t].updatedAt]_vars

\* A two-field patch has been applied, later than the creation, to a task whose
\* status an earlier update had set, beside a second task.
C10_Witness ==
    /\ last.op = "updateTask" /\ last.kind = "ok"
    /\ "title" \in DOMAIN last.arg
    /\ Len(tasks) = 2
    /\ tasks[last.taskId].title = U
    /\ tasks[last.taskId].priority = "high"
    /\ tasks[last.taskId].status = "done"
    /\ tasks[last.taskId].updatedAt > tasks[last.taskId].createdAt

\* C11 (as claimed): getTasks has no error outcome: whatever page and limit
\* the query carries, the call returns, with page and limit at least 1 (a
\* malformed value replaced by its default), a non-negative offset and a
\* finite, non-negative page count.
C11_NoErrorOutcome ==
    last.op = "getTasks" =>
        /\ last.kind = "ok"
        /\ last.pagination.page >= 1
        /\ last.pagination.limit >= 1
        /\ (last.pagination.page - 1) * last.pagination.limit >= 0
        /\ last.pagination.pages >= 0

\* C12 (as claimed): createdBy is immutable: after any sequence of createTask,
\* updateTask and deleteTask calls, every task's createdBy is the caller of the
\* createTask that created it.
C12_CreatedByImmutable ==
    \A t \in 1..Len(tasks) : tasks[t].createdBy = creator[t]

\* C15 (as claimed): a task's isDeleted goes from false to true only in a call
\* made by an admin or by the principal who created the task.
C15_OnlyAdminOrCreatorDeletes ==
    [][\A t \in 1..Len(tasks) :
          (~tasks[t].isDeleted /\ tasks'[t].isDeleted)
              => (IsAdmin(last'.userId) \/ last'.userId = creator[t])]_vars

\* C17: an updateTask or deleteTask that ends with the not-found sentinel or
\* with its authorization error leaves every task record unchanged, and
\* getTasks, getTaskById and getTaskStats never change any task record.
C17_FrameEffect ==
    [][(/\ Handled
        /\ \/ last'.op \in {"getTasks", "getTask", "getTaskStats"}
           \/ /\ last'.op \in {"updateTask", "deleteTask"}
              /\ \/ last'.kind = "null"
                 \/ last'.kind = "throw" /\ last'.error = AuthMsg(last'.op))
       => tasks' = tasks]_vars

\* An update by the assigned user of a task already soft-deleted has come back
\* not-found, and the record still carries the status it was created with.
C17_Witness ==
    /\ last.op = "updateTask" /\ last.kind = "null"
    /\ last.arg = [status |-> "done"]
    /\ last.taskId \in softDeleted
    /\ tasks[last.taskId].assignedTo = last.userId
    /\ tasks[last.taskId].status = "todo"

\* C13: isDeleted is monotonic: in no step of any interleaving of the store
\* calls of createTask, updateTask and deleteTask does a task whose isDeleted
\* is true get isDeleted false again.
C13_DeletedStaysDeleted ==
    [][\A t \in 1..Len(tasks) : tasks[t].isDeleted => tasks'[t].isDeleted]_vars

\* An update loaded before a delete, with isDeleted: false in its patch, has
\* saved after the delete; the record is still soft-deleted.
C13_Witness ==
    \E s \in Slots :
        /\ inflight[s].op = "updateTask" /\ inflight[s].pc = "findById"
        /\ inflight[s].stale /\ inflight[s].wrote
        /\ "isDeleted" \in DOMAIN inflight[s].arg
        /\ inflight[s].taskId \in softDeleted
        /\ tasks[inflight[s].taskId].isDeleted

\* C14 (as claimed): when createTask, updateTask or deleteTask ends in a
\* failure, a store failure at any of its calls included, it has written
\* nothing: the store is as it was before the operation began.
C14_AllOrNothing ==
    [][\A s \in Slots :
          (/\ inflight[s].pc # "idle"
           /\ inflight'[s].pc = "idle"
           /\ last'.kind = "throw")
              => (~inflight[s].wrote /\ tasks' = tasks)]_vars

\* C16 (as claimed): once a task's soft delete is persisted, the save of an
\* updateTask that loaded the task earlier changes nothing, and that update
\* is not answered as a success.
C16_NoUpdateAfterDelete ==
    [][\A s \in Slots :
          inflight[s].op = "updateTask" =>
              /\ (/\ inflight[s].pc = "save"
                  /\ inflight'[s].pc = "findById"
                  /\ inflight[s].taskId \in softDeleted) => tasks' = tasks
              /\ (/\ inflight[s].pc = "findById"
                  /\ inflight'[s].pc = "idle"
                  /\ inflight[s].stale) => last'.kind # "ok"]_vars

\* C16 (amended): an updateTask whose findOne preceded the delete's save still
\* writes its modified fields, and updatedAt, to the soft-deleted record,
\* leaves isDeleted true and every other task alone, and is answered as a
\* successful update; an updateTask gets past its findOne only on a record
\* that is not soft-deleted at that moment.
C16_StaleUpdatePersists ==
    [][\A s \in Slots :
          LET r == inflight[s]
              modified == ModifiedPaths(r.task, r.doc) IN
          /\ (/\ r.op = "updateTask" /\ r.pc = "save"
              /\ inflight'[s].pc = "findById"
              /\ r.taskId \in softDeleted)
                 => /\ tasks'[r.taskId].isDeleted
                    /\ \A k \in modified : tasks'[r.taskId][k] = r.doc[k]
                    /\ modified # {} => tasks'[r.taskId].updatedAt = now
                    /\ \A k \in SchemaPaths \ modified :
                           tasks'[r.taskId][k] = tasks[r.taskId][k]
                    /\ OthersUnchanged(r.taskId)
          /\ (/\ r.op = "updateTask" /\ r.pc = "findById"
              /\ inflight'[s].pc = "idle")
                 => last'.kind = "ok" /\ last'.http.status = "200"
          /\ (r.pc = "idle" /\ inflight'[s].op = "updateTask")
                 => ~tasks[inflight'[s].taskId].isDeleted]_vars

\* An update of the status, loaded before the delete, has been saved onto the
\* soft-deleted record and is about to be answered.
C16_Witness ==
    \E s \in Slots :
        /\ inflight[s].op = "updateTask" /\ inflight[s].pc = "findById"
        /\ inflight[s].stale /\ inflight[s].wrote
        /\ inflight[s].arg = [status |-> "done"]
        /\ inflight[s].taskId \in softDeleted
        /\ tasks[inflight[s].taskId].isDeleted
        /\ tasks[inflight[s].taskId].status = "done"

====
